---- MODULE Spec2Model ----
(***************************************************************************)
(* A model of fully_connected_layer.py: the Affine / ReLU / Softmax layers *)
(* with their per-call caches, the NeuralNetwork constructor, its forward  *)
(* pass, cost function, backward pass and parameter update, and the        *)
(* training loop with its periodic report.                                 *)
(*                                                                         *)
(* Real numbers are fixed-point integers in units of 1/Scale (hundredths), *)
(* rounded to nearest after every multiplication and division, as a float  *)
(* is rounded after every operation.  A matrix is a sequence of rows, a    *)
(* row a sequence of numbers; an attribute that has not been assigned yet  *)
(* is the empty sequence.  Python's 0-based indices are kept 0-based for   *)
(* the loop counter i and stored 1-based for rows of the data.             *)
(***************************************************************************)
EXTENDS Integers, Sequences, FiniteSets, TLC

VARIABLES
    pc,               \* position of the program
    layer_dimensions, \* NeuralNetwork.layer_dimensions
    layers,           \* NeuralNetwork.layers
    np_random,        \* state of numpy's global random generator
    X_train, y_train, X_val, y_val, iters, alpha,  \* arguments of train
    random_indices,   \* train: the permutation of line 106
    losses,           \* train: the list of line 107
    i,                \* train: the loop counter of line 108
    sgd_index,        \* train: the example of the current iteration
    reports,          \* the lines printed by line 121, in order
    samples,          \* history: the example each iteration trained on
    updates,          \* history: number of update_parameters calls
    bw_calls,         \* history: the layer.backward calls of the last backward_pass
    bw_gradients      \* history: each layer's gradient right after the last backward_pass

vars == <<pc, layer_dimensions, layers, np_random, X_train, y_train, X_val, y_val,
          iters, alpha, random_indices, losses, i, sgd_index, reports, samples,
          updates, bw_calls, bw_gradients>>

----------------------------------------------------------------------------
(* Bounds of the model *)

MaxDim == 2        \* widths are drawn from 1..MaxDim
MaxWidths == 3     \* a width sequence has 2..MaxWidths entries
MaxTrain == 2      \* the training set has MaxTrain examples
MaxVal == 2        \* the validation set has MaxVal examples
MaxIters == 3      \* iters is drawn from 0..MaxIters
LongExtra == 1     \* the long runs go LongExtra iterations past a report

----------------------------------------------------------------------------
(* Fixed-point arithmetic *)

Scale == 100
NaN == -99999999   \* the float "not a number": the result of 0/0

ReportPeriod == 1999

\* a / b rounded to the nearest integer, for b > 0
RDiv(a, b) == IF a >= 0 THEN (2 * a + b) \div (2 * b)
              ELSE -((2 * (-a) + b) \div (2 * b))

FMul(a, b) == RDiv(a * b, Scale)

\* float division: x/0 is not a number when x is 0 (the only case reached)
FDiv(a, b) == IF b = 0 THEN NaN
              ELSE IF b > 0 THEN RDiv(a * Scale, b)
              ELSE RDiv(-(a * Scale), -b)

\* np.exp, in units of 1/10000: halving per ln 2 = 0.69, then a Taylor
\* polynomial on (-0.69, 0]; underflows to 0 as a float does
RECURSIVE ExpFine(_)
ExpFine(x) ==
    IF x < -1400 THEN 0
    ELSE IF x <= -69 THEN ExpFine(x + 69) \div 2
    ELSE IF x > 0 THEN 2 * ExpFine(x - 69)
    ELSE 10000 + 100 * x + (x * x) \div 2 + (x * x * x) \div 600

Exp(x) == RDiv(ExpFine(x), 100)

\* np.log of p > 0, in units of 1/10000: doubling per ln 2, then
\* 2 atanh((p-1)/(p+1)) on (0.5, 1]
RECURSIVE LnFine(_)
LnFine(p) ==
    IF p <= 50 THEN LnFine(2 * p) - 6931
    ELSE LET z == ((p - 100) * 10000) \div (p + 100)
             z3 == (((z * z) \div 10000) * z) \div 10000
         IN  2 * z + (2 * z3) \div 3

\* np.log(p + 1e-9) of a clipped probability p: 1e-9 is below the
\* resolution except at p = 0, where log(1e-12 + 1e-9) = -20.72
Log(p) == IF p <= 0 THEN -2072 ELSE RDiv(LnFine(p), 100)

----------------------------------------------------------------------------
(* Matrices.  An operator binds each argument it reads more than once with *)
(* x \in {X}, so that the argument is evaluated once, as a Python call     *)
(* evaluates its arguments before the body runs.                           *)

Only(S) == CHOOSE v \in S : TRUE

Rows(m) == Len(m)
Cols(m) == IF Len(m) = 0 THEN 0 ELSE Len(m[1])

\* a list built element by element
Vector(n, f(_)) == [k \in 1..n |-> f(k)] \o <<>>

Matrix(r, c, f(_, _)) == Vector(r, LAMBDA a : Vector(c, LAMBDA b : f(a, b)))

Transpose(M) ==
    Only({Vector(Cols(m), LAMBDA c : Vector(Rows(m), LAMBDA r : m[r][c])) : m \in {M}})

\* sum of s[lo..hi], by halving so that long lists do not nest deeply
RECURSIVE SumRange(_, _, _)
SumRange(s, Lo, Hi) ==
    Only({IF lo > hi THEN 0
          ELSE IF lo = hi THEN s[lo]
          ELSE SumRange(s, lo, mid) + SumRange(s, mid + 1, hi)
            : lo \in {Lo}, hi \in {Hi}, mid \in {(Lo + Hi) \div 2}})

Sum(S) == Only({SumRange(s, 1, Len(s)) : s \in {S}})

\* ndarray.flatten / ravel: row-major
RECURSIVE Flatten(_)
Flatten(M) == Only({IF Len(m) = 0 THEN <<>> ELSE m[1] \o Flatten(Tail(m)) : m \in {M}})

SeqMax(S) ==
    Only({CHOOSE v \in {s[k] : k \in 1..Len(s)} : \A k \in 1..Len(s) : s[k] <= v
            : s \in {S}})

\* a / b rounded, of a computed a
Rounded(A, b) == Only({RDiv(a, b) : a \in {A}})

\* np.dot(a, b)
Dot(A, B) ==
    Only({Matrix(Rows(a), Cols(b), LAMBDA r, c :
              Rounded(Sum(Vector(Cols(a), LAMBDA k : a[r][k] * b[k][c])), Scale))
            : a \in {A}, b \in {B}})

\* m + b with the column vector b broadcast over the columns of m
AddBroadcast(M, B) ==
    Only({Matrix(Rows(m), Cols(m), LAMBDA r, c : m[r][c] + b[r][1]) : m \in {M}, b \in {B}})

\* np.outer(a, b): both arguments are flattened
Outer(A, B) ==
    Only({Matrix(Len(fa), Len(fb), LAMBDA r, c : FMul(fa[r], fb[c]))
            : fa \in {Flatten(A)}, fb \in {Flatten(B)}})

\* np.multiply(a, b) of two arrays of one shape
Multiply(A, B) ==
    Only({Matrix(Rows(a), Cols(a), LAMBDA r, c : FMul(a[r][c], b[r][c]))
            : a \in {A}, b \in {B}})

\* a - s * g
AXPY(A, s, G) ==
    Only({Matrix(Rows(a), Cols(a), LAMBDA r, c : a[r][c] - FMul(s, g[r][c]))
            : a \in {A}, g \in {G}})

Column(M, c) == Only({Vector(Rows(m), LAMBDA r : m[r][c]) : m \in {M}})

\* argmax of a vector, 0-based; np.argmax returns the first NaN when there is one
ArgMax(S) ==
    Only({IF \E k \in 1..Len(s) : s[k] = NaN
          THEN (CHOOSE k \in 1..Len(s) : s[k] = NaN /\ \A j \in 1..(k - 1) : s[j] # NaN) - 1
          ELSE (CHOOSE k \in 1..Len(s) : s[k] = top /\ \A j \in 1..(k - 1) : s[j] # top) - 1
            : s \in {S}, top \in {SeqMax(S)}})

----------------------------------------------------------------------------
(* numpy's global random generator.  The script seeds Python's random      *)
(* module, never numpy's, so the generator starts in an arbitrary state;   *)
(* each draw advances it.                                                  *)

RngNext(s) == (5 * s + 3) % 16

RECURSIVE RngAfter(_, _)
RngAfter(S, N) ==
    Only({IF n = 0 THEN s ELSE RngAfter(RngNext(s), n - 1) : s \in {S}, n \in {N}})

\* a standard normal deviate, one of the quantiles -1.5, -0.5, 0.5, 1.5
StdNormal(s) == <<-150, -50, 50, 150>>[(s \div 4) + 1]

\* np.random.normal(scale, size=(r, c)): r*c draws, row-major
RandomNormal(S, Scl, r, c) ==
    Only({Matrix(r, c, LAMBDA a, b : FMul(StdNormal(RngAfter(s, (a - 1) * c + b)), scale))
            : s \in {S}, scale \in {Scl}})

\* np.random.permutation(n): a shuffle of 1..n, one draw per position from the last down
RECURSIVE Shuffle(_, _, _)
Shuffle(P, S, K) ==
    Only({IF k <= 1 THEN p
          ELSE Only({Shuffle([p EXCEPT ![k] = p[j], ![j] = p[k]], s1, k - 1)
                       : j \in {((s1 \div 2) % k) + 1}})
            : p \in {P}, s1 \in {RngNext(S)}, k \in {K}})

Permutation(s, n) == Shuffle(Vector(n, LAMBDA k : k), s, n)

----------------------------------------------------------------------------
(* The layers.  Every layer is a record with the same fields; a field the  *)
(* class does not have, or has not assigned yet, is <<>>.  xavier_std      *)
(* (a local of AffineLayer.__init__, kept as the exact quotient) and       *)
(* shifted (the operand of np.exp in SoftmaxLayer.forward) are recorded    *)
(* on the layer.                                                           *)

BiasInit == 1      \* 0.01

Unset == <<>>

\* line 10: xavier_std = 2 / in_dim
XavierStd(in_dim) == [num |-> 2, den |-> in_dim]

ToFixed(q) == RDiv(q.num * Scale, q.den)

AffineLayer(in_dim, out_dim, rng) ==
    [kind |-> "Affine", in_dim |-> in_dim, out_dim |-> out_dim,
     xavier_std |-> XavierStd(in_dim),
     weights |-> RandomNormal(rng, ToFixed(XavierStd(in_dim)), out_dim, in_dim),
     bias_weights |-> Vector(out_dim, LAMBDA r : <<BiasInit>>),
     inputs |-> Unset, forward_product |-> Unset, gradient |-> Unset,
     new_cache |-> Unset, shifted |-> Unset]

ReluLayer(dim) ==
    [kind |-> "Relu", in_dim |-> dim, out_dim |-> dim, xavier_std |-> Unset,
     weights |-> Unset, bias_weights |-> Unset,
     inputs |-> Unset, forward_product |-> Unset, gradient |-> Unset,
     new_cache |-> Unset, shifted |-> Unset]

SoftmaxLayer(in_dim) ==
    [kind |-> "Softmax", in_dim |-> in_dim, out_dim |-> in_dim, xavier_std |-> Unset,
     weights |-> Unset, bias_weights |-> Unset,
     inputs |-> Unset, forward_product |-> Unset, gradient |-> Unset,
     new_cache |-> Unset, shifted |-> Unset]

\* a variant of AffineForward that also clears the stored gradient
AffineForwardZeroGrad(Layer, Inputs) ==
    Only({[layer EXCEPT !.inputs = inputs,
                        !.forward_product = AddBroadcast(Dot(layer.weights, inputs),
                                                         layer.bias_weights),
                        !.gradient = Matrix(layer.out_dim, layer.in_dim, LAMBDA r, c : 0)]
            : layer \in {Layer}, inputs \in {Inputs}})

AffineForward(Layer, Inputs) ==
    Only({[layer EXCEPT !.inputs = inputs,
                        !.forward_product = AddBroadcast(Dot(layer.weights, inputs),
                                                         layer.bias_weights)]
            : layer \in {Layer}, inputs \in {Inputs}})

AffineBackward(Layer, Cache) ==
    Only({[layer EXCEPT !.gradient = Outer(cache, layer.inputs),
                        !.bias_weights = Multiply(cache, layer.bias_weights),
                        !.new_cache = Dot(Transpose(layer.weights), cache)]
            : layer \in {Layer}, cache \in {Cache}})

AffineBackwardResult(layer) == layer.new_cache

ReluForward(Layer, Inputs) ==
    Only({[layer EXCEPT !.inputs = inputs,
                        !.forward_product =
                            Matrix(Rows(inputs), Cols(inputs), LAMBDA r, c :
                                IF inputs[r][c] > 0 THEN inputs[r][c] ELSE 0)]
            : layer \in {Layer}, inputs \in {Inputs}})

ReluBackward(Layer, Cache) ==
    Only({[layer EXCEPT !.gradient =
               Matrix(Rows(cache), Cols(cache), LAMBDA r, c :
                   IF layer.forward_product[r][c] = 0 THEN 0 ELSE cache[r][c])]
            : layer \in {Layer}, cache \in {Cache}})

\* line 48: the operand of np.exp, inputs - np.max(inputs)
SoftmaxShifted(Inputs) ==
    Only({Matrix(Rows(inputs), Cols(inputs), LAMBDA r, c : inputs[r][c] - shift)
            : inputs \in {Inputs}, shift \in {SeqMax(Flatten(Inputs))}})

\* line 49: e_x / e_x.sum(axis=0)
Normalised(E) ==
    Only({Only({Matrix(Rows(e_x), Cols(e_x), LAMBDA r, c : FDiv(e_x[r][c], colsum[c]))
                  : colsum \in {Vector(Cols(e_x), LAMBDA c : Sum(Column(e_x, c)))}})
            : e_x \in {E}})

SoftmaxForward(Layer, Inputs) ==
    Only({[layer EXCEPT
               !.inputs = inputs,
               !.shifted = shifted,
               !.forward_product =
                   Normalised(Matrix(Rows(inputs), Cols(inputs), LAMBDA r, c :
                                  Exp(shifted[r][c])))]
            : layer \in {Layer}, inputs \in {Inputs}, shifted \in {SoftmaxShifted(Inputs)}})

SoftmaxBackward(Layer, Y) ==
    Only({[layer EXCEPT !.gradient =
               Matrix(Rows(y_true), 1, LAMBDA r, one :
                   Rounded(Sum(Vector(Cols(y_true), LAMBDA c :
                               layer.forward_product[r][c] - y_true[r][c])),
                           Cols(y_true)))]
            : layer \in {Layer}, y_true \in {Y}})

\* layer.forward(inputs), by the class of the layer
Forward(layer, inputs) ==
    CASE layer.kind = "Affine" -> AffineForward(layer, inputs)
      [] layer.kind = "Relu" -> ReluForward(layer, inputs)
      [] layer.kind = "Softmax" -> SoftmaxForward(layer, inputs)

\* layer.backward(cache), by the class of the layer: the layer afterwards
Backward(layer, cache) ==
    CASE layer.kind = "Affine" -> AffineBackward(layer, cache)
      [] layer.kind = "Relu" -> ReluBackward(layer, cache)
      [] layer.kind = "Softmax" -> SoftmaxBackward(layer, cache)

\* the value layer.backward returns, read off the layer afterwards
BackwardResult(layer) ==
    IF layer.kind = "Affine" THEN AffineBackwardResult(layer) ELSE layer.gradient

----------------------------------------------------------------------------
(* NeuralNetwork: the operations on the list of layers *)

\* lines 74-79
RECURSIVE ForwardFrom(_, _, _)
ForwardFrom(Ls, K, Input) ==
    Only({IF k > Len(ls) THEN [layers |-> ls, output |-> input_vector]
          ELSE Only({ForwardFrom([ls EXCEPT ![k] = layer], k + 1, layer.forward_product)
                       : layer \in {Forward(ls[k], input_vector)}})
            : ls \in {Ls}, k \in {K}, input_vector \in {Input}})

ForwardPass(ls, X) == ForwardFrom(ls, 1, X)

\* lines 81-85; a NaN anywhere makes the sum NaN
CostFunction(Predicted, Y) ==
    Only({IF \E r \in 1..Rows(AL) : \E c \in 1..Cols(AL) : AL[r][c] = NaN
          THEN NaN
          ELSE Rounded(-Sum(Vector(Rows(AL), LAMBDA r :
                            Sum(Vector(Cols(AL), LAMBDA c :
                                FMul(y[r][c],
                                     Log(IF AL[r][c] < 0 THEN 0
                                         ELSE IF AL[r][c] > Scale THEN Scale
                                         ELSE AL[r][c])))))),
                       Rows(AL))
            : AL \in {Transpose(Predicted)}, y \in {Transpose(Y)}})

\* a variant of BackwardPass that calls backward on the Affine and Softmax layers only
RECURSIVE BackwardSkipping(_, _, _, _)
BackwardSkipping(Ls, K, Grad, Calls) ==
    Only({IF k < 1 THEN [layers |-> ls, calls |-> calls]
          ELSE IF ls[k].kind = "Relu" THEN BackwardSkipping(ls, k - 1, grad_so_far, calls)
          ELSE Only({BackwardSkipping(
                         [ls EXCEPT ![k] = layer], k - 1, BackwardResult(layer),
                         Append(calls, [layer |-> k, arg |-> grad_so_far,
                                        ret |-> BackwardResult(layer)]))
                       : layer \in {Backward(ls[k], grad_so_far)}})
            : ls \in {Ls}, k \in {K}, grad_so_far \in {Grad}, calls \in {Calls}})

BackwardPassSkipping(ls, y_true) == BackwardSkipping(ls, Len(ls), y_true, <<>>)

\* lines 87-91: the layers from the last to the first; calls lists each
\* layer.backward call with its argument and its return value
RECURSIVE BackwardFrom(_, _, _, _)
BackwardFrom(Ls, K, Grad, Calls) ==
    Only({IF k < 1 THEN [layers |-> ls, calls |-> calls]
          ELSE Only({BackwardFrom(
                         [ls EXCEPT ![k] = layer], k - 1, BackwardResult(layer),
                         Append(calls, [layer |-> k, arg |-> grad_so_far,
                                        ret |-> BackwardResult(layer)]))
                       : layer \in {Backward(ls[k], grad_so_far)}})
            : ls \in {Ls}, k \in {K}, grad_so_far \in {Grad}, calls \in {Calls}})

BackwardPass(ls, y_true) == BackwardFrom(ls, Len(ls), y_true, <<>>)

\* a variant of UpdateParameters that steps the bias too
UpdateParametersAndBias(Ls, a) ==
    Only({Vector(Len(ls), LAMBDA k :
              IF ls[k].kind = "Affine"
              THEN [ls[k] EXCEPT !.weights = AXPY(ls[k].weights, a, ls[k].gradient),
                                 !.bias_weights = AXPY(ls[k].bias_weights, a, ls[k].gradient)]
              ELSE ls[k])
            : ls \in {Ls}})

\* lines 93-96
UpdateParameters(Ls, a) ==
    Only({Vector(Len(ls), LAMBDA k :
              IF ls[k].kind = "Affine"
              THEN [ls[k] EXCEPT !.weights = AXPY(ls[k].weights, a, ls[k].gradient)]
              ELSE ls[k])
            : ls \in {Ls}})

\* lines 125-127
Predict(ls, X_new) == ForwardPass(ls, X_new)

\* lines 98-101: the fraction of the rows of y whose argmax is the predicted class
GetAccuracyScore(ls, X, Y) ==
    Only({[layers |-> p.layers,
           score |-> RDiv(Cardinality({n \in 1..Rows(y) :
                                          ArgMax(y[n]) = ArgMax(Column(p.output, n))})
                          * Scale, Rows(y))]
            : p \in {Predict(ls, Transpose(X))}, y \in {Y}})

\* np.mean of a list, kept as the exact quotient sum / count
Mean(S) == Only({[num |-> Sum(s), den |-> Len(s)] : s \in {S}})

----------------------------------------------------------------------------
(* The inputs: width sequences, and small data sets of the shapes the      *)
(* network takes (features: examples x d0, labels: one-hot, examples x dk) *)

\* the states the random generator may start in
Seeds == {0, 7}

WidthSeqs == UNION {[1..n -> 1..MaxDim] : n \in 2..MaxWidths}

\* feature f of example n: one of -2, -1, 0, 1, 2
Feature(n, f) == (((3 * n + 2 * f) % 5) - 2) * Scale

OneHot(cls, classes) == Vector(classes, LAMBDA c : IF c = cls + 1 THEN Scale ELSE 0)

Features(first, count, d0) ==
    Vector(count, LAMBDA n : Vector(d0, LAMBDA f : Feature(first + n - 1, f)))

Labels(first, count, classes) ==
    Vector(count, LAMBDA n : OneHot((first + n - 1) % classes, classes))

\* alpha: the default 0.01 of line 103, and 0.5
Alphas == {1, 50}

ShortIters == 0..MaxIters

\* runs that reach the second and the third report
LongIters == {ReportPeriod, ReportPeriod + 1, 2 * ReportPeriod + LongExtra}

----------------------------------------------------------------------------
(* NeuralNetwork.__init__, lines 60-72 *)

Init ==
    /\ pc = "init"
    /\ layer_dimensions \in WidthSeqs
    /\ layers = <<>>
    /\ np_random \in Seeds
    /\ X_train = <<>> /\ y_train = <<>> /\ X_val = <<>> /\ y_val = <<>>
    /\ iters = 0 /\ alpha = 0
    /\ random_indices = <<>>
    /\ losses = <<>>
    /\ i = 0
    /\ sgd_index = 0
    /\ reports = <<>>
    /\ samples = <<>>
    /\ updates = 0
    /\ bw_calls = <<>>
    /\ bw_gradients = <<>>

trainVars == <<X_train, y_train, X_val, y_val, iters, alpha, random_indices, losses,
               i, sgd_index, reports, samples, updates, bw_calls, bw_gradients>>

\* one turn of the loop of lines 64-69: an Affine layer and the ReLU after it
ConstructLoop ==
    /\ pc = "init"
    /\ Len(layers) \div 2 < Len(layer_dimensions) - 1
    /\ LET k == Len(layers) \div 2 + 1
           in_dim == layer_dimensions[k]
           out_dim == layer_dimensions[k + 1]
       IN  /\ layers' = layers \o <<AffineLayer(in_dim, out_dim, np_random),
                                    ReluLayer(out_dim)>>
           /\ np_random' = RngAfter(np_random, in_dim * out_dim)
    /\ UNCHANGED <<pc, layer_dimensions>>
    /\ UNCHANGED trainVars

\* a variant of ConstructPop that keeps the last ReLU layer
ConstructPopNone ==
    /\ pc = "init"
    /\ Len(layers) \div 2 = Len(layer_dimensions) - 1
    /\ pc' = "popped"
    /\ UNCHANGED <<layer_dimensions, layers, np_random>>
    /\ UNCHANGED trainVars

\* line 70: the last ReLU layer is removed
ConstructPop ==
    /\ pc = "init"
    /\ Len(layers) \div 2 = Len(layer_dimensions) - 1
    /\ layers' = SubSeq(layers, 1, Len(layers) - 1)
    /\ pc' = "popped"
    /\ UNCHANGED <<layer_dimensions, np_random>>
    /\ UNCHANGED trainVars

\* lines 71-72
ConstructSoftmax ==
    /\ pc = "popped"
    /\ layers' = Append(layers, SoftmaxLayer(layer_dimensions[Len(layer_dimensions)]))
    /\ pc' = "ready"
    /\ UNCHANGED <<layer_dimensions, np_random>>
    /\ UNCHANGED trainVars

----------------------------------------------------------------------------
(* NeuralNetwork.train, lines 103-123 *)

\* a variant of IsReportIter that counts iterations from 1
IsReportIterFromOne(n) == (n + 1) % ReportPeriod = 0

\* line 115
IsReportIter(n) == n % ReportPeriod = 0

\* a variant of SgdIndex that takes the examples in their stored order
SgdIndexUnpermuted(perm, n, N) == (n % N) + 1

\* line 109
SgdIndex(perm, n, N) == perm[(n % N) + 1]

\* a variant of ReportedLosses that drops the losses already reported
ReportedLossesSinceLast(ls, n) ==
    IF n = 0 THEN ls ELSE SubSeq(ls, n - ReportPeriod + 2, n + 1)

\* line 116: the losses whose mean is reported at iteration n
ReportedLosses(ls, n) == ls

\* the column vector of row r of m: m[r].reshape(1,-1).T
Sample(m, r) == Transpose(<<m[r]>>)

\* the call, with its arguments, and lines 106-107
TrainCall(itersChoices, alphaChoices) ==
    /\ pc = "ready"
    /\ \E n \in itersChoices, a \in alphaChoices :
          /\ X_train' = Features(1, MaxTrain, layer_dimensions[1])
          /\ y_train' = Labels(1, MaxTrain, layer_dimensions[Len(layer_dimensions)])
          /\ X_val' = Features(MaxTrain + 1, MaxVal, layer_dimensions[1])
          /\ y_val' = Labels(MaxTrain + 1, MaxVal, layer_dimensions[Len(layer_dimensions)])
          /\ iters' = n
          /\ alpha' = a
          /\ random_indices' = Permutation(np_random, MaxTrain)
          /\ np_random' = RngAfter(np_random, MaxTrain - 1)
          /\ pc' = IF n > 0 THEN "forward" ELSE "done"
    /\ losses' = <<>>
    /\ i' = 0
    /\ UNCHANGED <<layer_dimensions, layers, sgd_index, reports, samples, updates,
                   bw_calls, bw_gradients>>

Train == TrainCall(ShortIters, Alphas)

TrainLong == TrainCall(LongIters, {1})

\* lines 109-113
TrainForward ==
    /\ pc = "forward"
    /\ \E idx \in {SgdIndex(random_indices, i, Rows(X_train))} :
       \E fwd \in {ForwardPass(layers, Sample(X_train, idx))} :
       \E loss \in {CostFunction(fwd.output, Sample(y_train, idx))} :
          /\ sgd_index' = idx
          /\ layers' = fwd.layers
          /\ losses' = Append(losses, loss)
          /\ samples' = Append(samples, idx)
    /\ pc' = "backward"
    /\ UNCHANGED <<layer_dimensions, np_random, X_train, y_train, X_val, y_val, iters,
                   alpha, random_indices, i, reports, updates, bw_calls, bw_gradients>>

\* the gradient attribute of every layer
Gradients(ls) == Vector(Len(ls), LAMBDA k : ls[k].gradient)

\* line 114, and the test of line 115
TrainBackward ==
    /\ pc = "backward"
    /\ \E bwd \in {BackwardPass(layers, Sample(y_train, sgd_index))} :
          /\ layers' = bwd.layers
          /\ bw_calls' = bwd.calls
          /\ bw_gradients' = Gradients(bwd.layers)
    /\ pc' = IF IsReportIter(i) THEN "report" ELSE "update"
    /\ UNCHANGED <<layer_dimensions, np_random, X_train, y_train, X_val, y_val, iters,
                   alpha, random_indices, losses, i, sgd_index, reports, samples, updates>>

\* lines 119-122: the forward pass on the validation set, its loss and its accuracy
ValidationReport(train_loss, train_accuracy, n) ==
    Only({Only({Only({[layers |-> val_accuracy.layers,
                       line |-> [i |-> n, train_loss |-> train_loss,
                                 train_accuracy |-> train_accuracy.score,
                                 val_loss |-> val_loss,
                                 val_accuracy |-> val_accuracy.score]]
                        : val_accuracy \in {GetAccuracyScore(val_preds.layers, X_val, y_val)}})
                  : val_loss \in {CostFunction(val_preds.output, Transpose(y_val))}})
            : val_preds \in {ForwardPass(train_accuracy.layers, Transpose(X_val))}})

\* lines 116-122 at iteration n: the layers after the forward passes, and the printed line
Report(ls, all_losses, n) ==
    Only({ValidationReport(train_loss, train_accuracy, n)
            : train_loss \in {Mean(ReportedLosses(all_losses, n))},
              train_accuracy \in {GetAccuracyScore(ls, X_train, y_train)}})

\* lines 116-122
TrainReport ==
    /\ pc = "report"
    /\ \E rep \in {Report(layers, losses, i)} :
          /\ reports' = Append(reports, rep.line)
          /\ layers' = rep.layers
    /\ pc' = "update"
    /\ UNCHANGED <<layer_dimensions, np_random, X_train, y_train, X_val, y_val, iters,
                   alpha, random_indices, losses, i, sgd_index, samples, updates,
                   bw_calls, bw_gradients>>

\* a variant of TrainUpdate with the update inside the if of line 115
TrainUpdateWhenReporting ==
    /\ pc = "update"
    /\ layers' = IF IsReportIter(i) THEN UpdateParameters(layers, alpha) ELSE layers
    /\ updates' = IF IsReportIter(i) THEN updates + 1 ELSE updates
    /\ i' = i + 1
    /\ pc' = IF i + 1 < iters THEN "forward" ELSE "done"
    /\ UNCHANGED <<layer_dimensions, np_random, X_train, y_train, X_val, y_val, iters,
                   alpha, random_indices, losses, sgd_index, reports, samples,
                   bw_calls, bw_gradients>>

\* line 123, and the step of the loop of line 108
TrainUpdate ==
    /\ pc = "update"
    /\ layers' = UpdateParameters(layers, alpha)
    /\ updates' = updates + 1
    /\ i' = i + 1
    /\ pc' = IF i + 1 < iters THEN "forward" ELSE "done"
    /\ UNCHANGED <<layer_dimensions, np_random, X_train, y_train, X_val, y_val, iters,
                   alpha, random_indices, losses, sgd_index, reports, samples,
                   bw_calls, bw_gradients>>

\* lines 109-123 in one step: the whole body of one turn of the loop
TrainIteration ==
    /\ pc = "forward"
    /\ \E idx \in {SgdIndex(random_indices, i, Rows(X_train))} :
       \E fwd \in {ForwardPass(layers, Sample(X_train, idx))} :
       \E all_losses \in {Append(losses, CostFunction(fwd.output, Sample(y_train, idx)))} :
       \E bwd \in {BackwardPass(fwd.layers, Sample(y_train, idx))} :
       \E rep \in {IF IsReportIter(i) THEN Report(bwd.layers, all_losses, i)
                   ELSE [layers |-> bwd.layers, line |-> <<>>]} :
          /\ sgd_index' = idx
          /\ samples' = Append(samples, idx)
          /\ losses' = all_losses
          /\ bw_calls' = bwd.calls
          /\ bw_gradients' = Gradients(bwd.layers)
          /\ reports' = IF IsReportIter(i) THEN Append(reports, rep.line) ELSE reports
          /\ layers' = UpdateParameters(rep.layers, alpha)
    /\ updates' = updates + 1
    /\ i' = i + 1
    /\ pc' = IF i + 1 < iters THEN "forward" ELSE "done"
    /\ UNCHANGED <<layer_dimensions, np_random, X_train, y_train, X_val, y_val, iters,
                   alpha, random_indices>>

\* lines 125-127: predict, called on the validation features once train has returned
PredictCall ==
    /\ pc = "done"
    /\ layers' = Predict(layers, Transpose(X_val)).layers
    /\ UNCHANGED <<pc, layer_dimensions, np_random>>
    /\ UNCHANGED trainVars

----------------------------------------------------------------------------
(* The specifications *)

Next ==
    \/ ConstructLoop
    \/ ConstructPop
    \/ ConstructSoftmax
    \/ Train
    \/ TrainForward
    \/ TrainBackward
    \/ TrainReport
    \/ TrainUpdate
    \/ PredictCall

Spec == Init /\ [][Next]_vars

\* the network [2, 2, 2] trained for the long runs, one step per turn of the loop
InitLong ==
    /\ Init
    /\ layer_dimensions = <<2, 2, 2>>
    /\ np_random = 0

NextLong ==
    \/ ConstructLoop
    \/ ConstructPop
    \/ ConstructSoftmax
    \/ TrainLong
    \/ TrainIteration
    \/ PredictCall

SpecLong == InitLong /\ [][NextLong]_vars


----------------------------------------------------------------------------
(* Properties *)

Constructed == pc \notin {"init", "popped"}

InLoop == pc \in {"forward", "backward", "report", "update"}

\* k of the width sequence [d0, ..., dk]
K == Len(layer_dimensions) - 1

KindCount(kind) == Cardinality({n \in 1..Len(layers) : layers[n].kind = kind})

LayerIs(n, kind, in_dim, out_dim) ==
    /\ layers[n].kind = kind
    /\ layers[n].in_dim = in_dim
    /\ layers[n].out_dim = out_dim

\* C1: once the constructor has returned, the layer list is Affine(d0,d1),
\* ReLU(d1), ..., Affine(d_{k-1},dk), Softmax(dk): k Affine layers, k-1 ReLU
\* layers, none after the last Affine, and one Softmax layer, the last.
C1_LayerStack ==
    Constructed =>
        /\ Len(layers) = 2 * K
        /\ \A j \in 1..K :
               LayerIs(2 * j - 1, "Affine", layer_dimensions[j], layer_dimensions[j + 1])
        /\ \A j \in 1..(K - 1) :
               LayerIs(2 * j, "Relu", layer_dimensions[j + 1], layer_dimensions[j + 1])
        /\ LayerIs(2 * K, "Softmax", layer_dimensions[K + 1], layer_dimensions[K + 1])
        /\ KindCount("Affine") = K
        /\ KindCount("Relu") = K - 1
        /\ KindCount("Softmax") = 1

C1_Witness ==
    /\ pc = "ready"
    /\ K = 2
    /\ layers[2].kind = "Relu"
    /\ layers[4].kind = "Softmax"

\* C9: a newly constructed Affine layer draws its weights with a standard
\* deviation std such that std^2 * in_dim = 2, and its bias is an
\* out_dim x 1 vector of 0.01.
C9_XavierStd ==
    pc = "ready" =>
        \A n \in 1..Len(layers) :
            layers[n].kind = "Affine" =>
                /\ layers[n].xavier_std.num * layers[n].xavier_std.num * layers[n].in_dim
                       = 2 * layers[n].xavier_std.den * layers[n].xavier_std.den
                /\ layers[n].bias_weights = Matrix(layers[n].out_dim, 1, LAMBDA r, c : BiasInit)

\* the bias half of C9 alone
BiasInitialised ==
    pc = "ready" =>
        \A n \in 1..Len(layers) :
            layers[n].kind = "Affine" =>
                layers[n].bias_weights = Matrix(layers[n].out_dim, 1, LAMBDA r, c : BiasInit)

ColumnMax(m, c) == SeqMax(Column(m, c))

\* C8: Softmax.forward subtracts from every column of its input that
\* column's own maximum before exponentiating.
C8_PerColumnShift ==
    \A n \in 1..Len(layers) :
        (layers[n].kind = "Softmax" /\ layers[n].inputs # Unset) =>
            \A r \in 1..Rows(layers[n].inputs) : \A c \in 1..Cols(layers[n].inputs) :
                layers[n].shifted[r][c]
                    = layers[n].inputs[r][c] - ColumnMax(layers[n].inputs, c)

\* C7: backward_pass calls backward once on every layer, from the last to the
\* first; the Softmax layer receives true_labels, every other layer the value
\* the call before it returned.
C7_BackwardOrder ==
    pc \in {"report", "update"} =>
        /\ Len(bw_calls) = Len(layers)
        /\ \A j \in 1..Len(bw_calls) : bw_calls[j].layer = Len(layers) - j + 1
        /\ layers[bw_calls[1].layer].kind = "Softmax"
        /\ bw_calls[1].arg = Sample(y_train, sgd_index)
        /\ \A j \in 2..Len(bw_calls) : bw_calls[j].arg = bw_calls[j - 1].ret

C7_Witness ==
    /\ pc = "update"
    /\ Len(layers) = 4
    /\ Len(bw_calls) = 4
    /\ bw_calls[4].layer = 1
    /\ bw_calls[2].ret # bw_calls[1].arg

\* what is left of the loop: four positions for every iteration not yet finished
Rank ==
    4 * (iters - i) - (CASE pc = "forward" -> 0 [] pc = "backward" -> 1
                         [] pc = "report" -> 2 [] pc = "update" -> 3 [] OTHER -> 0)

C2_Counts ==
    /\ InLoop => (i < iters /\ updates = i /\ Rank > 0)
    /\ pc = "done" => (i = iters /\ updates = iters /\ Len(samples) = iters)

C2_Step ==
    /\ pc = "update" => (updates' = updates + 1 /\ i' = i + 1)
    /\ pc \in {"forward", "backward", "report"} => (updates' = updates /\ i' = i)
    /\ InLoop => (Rank' < Rank /\ (InLoop' \/ pc' = "done"))

\* C2: train with iters = n returns after exactly n iterations (every step of
\* the loop brings its end nearer, and it ends with i = n), and
\* update_parameters runs exactly once in each of them, reporting or not.
C2_UpdateEveryIteration ==
    /\ [](C2_Counts)
    /\ [][C2_Step]_vars

C2_Witness ==
    /\ pc = "done"
    /\ iters = MaxIters
    /\ updates = MaxIters
    /\ Len(reports) = 1

ReportIters == Vector(Len(reports), LAMBDA k : reports[k].i)

\* the iterations that have got past the test of line 115
PastReportTest == IF pc = "update" THEN i + 1 ELSE i

\* a report has been printed at iteration n exactly when n mod 1999 = 0
ReportsAtMultiples ==
    (InLoop \/ (pc = "done" /\ iters > 0)) =>
        /\ \A k \in 1..Len(reports) : reports[k].i = (k - 1) * ReportPeriod
        /\ Len(reports) = IF PastReportTest > 0
                          THEN (PastReportTest - 1) \div ReportPeriod + 1 ELSE 0
        /\ pc = "report" => i % ReportPeriod = 0

\* C3 as stated: reports at the multiples of 1999, so that a run of at most
\* 2000 iterations reports at i = 0 only.
C3_OnlyAtZeroUpTo2000 ==
    /\ ReportsAtMultiples
    /\ iters <= 2000 => \A k \in 1..Len(reports) : reports[k].i = 0

\* C3, amended: reports at the multiples of 1999, so that a run of at most
\* 1999 iterations reports at i = 0 only, and a run of 2000 iterations
\* reports at i = 0 and at its last iteration, i = 1999.
C3_OnlyAtZeroUpTo1999 ==
    /\ ReportsAtMultiples
    /\ iters <= ReportPeriod => \A k \in 1..Len(reports) : reports[k].i = 0
    /\ (pc = "done" /\ iters = ReportPeriod + 1) => ReportIters = <<0, ReportPeriod>>

C3_Witness ==
    /\ pc = "done"
    /\ iters = ReportPeriod + 1
    /\ ReportIters = <<0, ReportPeriod>>

\* the last line printed is the report of the latest iteration
JustReported == Len(reports) > 0 /\ reports[Len(reports)].i + 1 = Len(losses)

\* the iteration of the last report
LastReport == reports[Len(reports)].i

\* the iteration of the report before the last one, -1 when there is none
PreviousReport == IF Len(reports) > 1 THEN reports[Len(reports) - 1].i ELSE -1

\* C4 as stated: the reported training loss is the mean of the losses of
\* the iterations after the previous report, up to this one.
C4_MeanSinceLastReport ==
    JustReported =>
        reports[Len(reports)].train_loss
            = Mean(SubSeq(losses, PreviousReport + 2, LastReport + 1))

\* C4, amended: the reported training loss is the mean of the losses of all
\* the iterations of the run so far, 0 to i.
C4_MeanSinceStart ==
    JustReported =>
        /\ reports[Len(reports)].train_loss = Mean(SubSeq(losses, 1, LastReport + 1))
        /\ reports[Len(reports)].train_loss.den = LastReport + 1

C4_Witness ==
    /\ JustReported
    /\ LastReport = ReportPeriod
    /\ reports[2].train_loss.den = ReportPeriod + 1
    /\ losses[1] # 0

IsPermutation(p, n) == Len(p) = n /\ {p[k] : k \in 1..n} = 1..n

C5_Order ==
    (InLoop \/ pc = "done") =>
        LET N == Rows(X_train)
        IN  /\ IsPermutation(random_indices, N)
            /\ Len(samples) = IF pc = "forward" \/ pc = "done" THEN i ELSE i + 1
            /\ \A j \in 1..Len(samples) : samples[j] = random_indices[((j - 1) % N) + 1]
            /\ \A b \in 0..(Len(samples) \div N) :
                   (b + 1) * N <= Len(samples) =>
                       {samples[b * N + j] : j \in 1..N} = 1..N
            /\ \A j \in 1..Len(samples) :
                   j + N <= Len(samples) => samples[j] = samples[j + N]

\* C5: the permutation is computed once and never changed, iteration i
\* trains on example permutation[i mod N], every block of N iterations from
\* a multiple of N uses every example once, and i and i+N use the same one.
C5_FixedPermutation ==
    /\ [](C5_Order)
    /\ [][InLoop => random_indices' = random_indices]_vars

C5_Witness ==
    /\ pc = "done"
    /\ Len(samples) > Rows(X_train)
    /\ random_indices # Vector(Rows(X_train), LAMBDA k : k)

C6_Step ==
    (Constructed /\ pc # "ready") =>
        /\ pc = "update" =>
               \A n \in 1..Len(layers) :
                   layers'[n] =
                       IF layers[n].kind = "Affine"
                       THEN [layers[n] EXCEPT
                                !.weights = AXPY(layers[n].weights, alpha, layers[n].gradient)]
                       ELSE layers[n]
        /\ \A n \in 1..Len(layers) :
               /\ layers'[n].bias_weights # layers[n].bias_weights =>
                      (pc = "backward" /\ layers[n].kind = "Affine")
               /\ layers'[n].weights # layers[n].weights =>
                      (pc = "update" /\ layers[n].kind = "Affine")

\* C6: update_parameters(alpha) sets the weights of every Affine layer to
\* W - alpha * gradient and changes nothing else; a bias changes only in
\* backward_pass (Affine.backward), a weight matrix only in update_parameters.
C6_UpdateFrame == [][C6_Step]_vars

\* the last update changed a weight, and backward has changed a bias
C6_Witness ==
    /\ pc = "done"
    /\ updates > 0
    /\ \E n \in 1..Len(layers) :
           /\ layers[n].kind = "Affine"
           /\ AXPY(layers[n].gradient, alpha, layers[n].gradient) # layers[n].gradient
           /\ layers[n].bias_weights # Matrix(layers[n].out_dim, 1, LAMBDA r, c : BiasInit)

\* the argument of the backward call on layer n in the last backward_pass
BackwardArg(n) == bw_calls[Len(layers) - n + 1].arg

C10_Stored ==
    /\ pc \in {"report", "update"} =>
           /\ sgd_index = random_indices[(i % Rows(X_train)) + 1]
           /\ \A n \in 1..Len(layers) : layers[n].gradient = bw_gradients[n]
    /\ pc = "report" =>
           /\ layers[1].inputs = Sample(X_train, sgd_index)
           /\ \A n \in 1..Len(layers) :
                  layers[n].kind = "Affine" =>
                      bw_gradients[n] = Outer(BackwardArg(n), layers[n].inputs)

C10_Step ==
    /\ pc = "report" =>
           \A n \in 1..Len(layers) :
               /\ layers'[n].weights = layers[n].weights
               /\ layers'[n].bias_weights = layers[n].bias_weights
               /\ layers'[n].gradient = layers[n].gradient
    /\ pc = "update" =>
           \A n \in 1..Len(layers) :
               layers[n].kind = "Affine" =>
                   layers'[n].weights = AXPY(layers[n].weights, alpha, bw_gradients[n])

\* C10: in every iteration the gradient update_parameters applies is the one
\* backward_pass stored in that iteration for example permutation[i mod N];
\* the forward passes of the report overwrite the cached inputs and outputs
\* and leave weights, biases and stored gradients as they were.
C10_GradientOfIteration ==
    /\ [](C10_Stored)
    /\ [][C10_Step]_vars

\* after a report: the cached input is the whole training or validation set,
\* no longer the example, and the stored gradient is not zero
C10_Witness ==
    /\ pc = "update"
    /\ IsReportIter(i)
    /\ layers[1].inputs # Sample(X_train, sgd_index)
    /\ Cols(layers[1].inputs) > 1
    /\ \E r \in 1..Rows(layers[1].gradient) : \E c \in 1..Cols(layers[1].gradient) :
           FMul(alpha, layers[1].gradient[r][c]) # 0

====
